---- MODULE Spec2Model ----
(***************************************************************************)
(* Storefront client: the domain entities (Product, Order, OrderItem), the *)
(* use cases built on them (CreateOrderUseCase, AuthenticateUserUseCase)   *)
(* and the REST-backed repositories they call.                             *)
(*                                                                         *)
(* Every method of an entity is an operator that returns the pair          *)
(*   [error |-> the message of the Error thrown, or NoError,               *)
(*    this  |-> the object after the call]                                 *)
(* so that a throw and the state it leaves behind are both visible.        *)
(***************************************************************************)
EXTENDS Integers, Sequences, FiniteSets, TLC

(***************************************************************************)
(* Bounds of the model.                                                    *)
(***************************************************************************)
MaxStock == 2        \* initial stock of a product is in 0..MaxStock
MaxQty == 2          \* quantity arguments are in -MaxQty..MaxQty
StockLimit == 4      \* calls that would take |stock| beyond it are not made
MaxItems == 3        \* an order holds at most MaxItems line items
MaxReqs == 2         \* a request list has at most MaxReqs entries
MaxAmount == 2       \* amounts given to Money.create are in -1..MaxAmount
MaxConcurrentReqs == 1  \* length of the request lists of interleaved executions

VARIABLES
    product,    \* the Product entity under test
    pCall,      \* the last call made on it: [op, quantity, before]
    pError,     \* the message of the Error that call threw, or NoError
    order,      \* the Order entity under test
    oCall,      \* the last call made on it: [op, from], from the status before
    oError,     \* the message of the Error that call threw, or NoError
    store,      \* backend /products: productId -> product data or Null
    orders,     \* backend /orders: the orders PUT so far, in sequence
    exec,       \* the executions of CreateOrderUseCase.execute
    users,      \* backend /users and /login: email -> password or Null
    auth,       \* the execution of AuthenticateUserUseCase.execute
    moneyA,     \* a Money value under test, or Null before it is created
    moneyB,     \* a second Money value under test, or Null
    moneyR,     \* what the last Money call returned, or Null if it threw
    mCall,      \* the last Money call: its name and arguments
    mError,     \* the message of the Error that call threw, or NoError
    session,    \* the auth store: [user, token]
    localToken, \* localStorage's "token" entry, or NoToken
    login,      \* the login mutation of useAuth: [pc, token]
    request,    \* the last request a repository sent through the api client
    form,       \* LoginForm.handleSubmit: [pc], and where it navigated to
    creation    \* the execution of CreateProductUseCase.execute

vars == <<product, pCall, pError, order, oCall, oError, store, orders, exec,
          users, auth, moneyA, moneyB, moneyR, mCall, mError, session,
          localToken, login, request, form, creation>>
productVars == <<product, pCall, pError>>
orderVars == <<order, oCall, oError>>
createOrderVars == <<store, orders, exec>>
authVars == <<users, auth>>
moneyVars == <<moneyA, moneyB, moneyR, mCall, mError>>
sessionVars == <<session, localToken, login, request, form>>
createProductVars == <<creation>>

NoError == "none"
Null == [null |-> TRUE]

ProductIds == {"p1", "p2"}
Quantities == (0 - MaxQty)..MaxQty
Prices == {5, 10}
CustomerIds == {"c1", "c2"}
OrderIds == {"t1"}

(***************************************************************************)
(* Product                                                                 *)
(***************************************************************************)
ProductName(id) == IF id = "p1" THEN "Lamp" ELSE "Desk"
ProductPrice(id) == IF id = "p1" THEN 10 ELSE 5

\* new Product(id, name, price, stock)
NewProduct(id, name, price, stock) ==
    [id |-> id, name |-> name, price |-> price, stock |-> stock]

decreaseStockStrict(this, quantity) ==
    IF quantity >= this.stock
    THEN [error |-> "Stock insuficiente", this |-> this]
    ELSE [error |-> NoError, this |-> [this EXCEPT !.stock = @ - quantity]]

decreaseStockDirty(this, quantity) ==
    IF quantity > this.stock
    THEN [error |-> "Stock insuficiente",
          this |-> [this EXCEPT !.stock = @ - quantity]]
    ELSE [error |-> NoError, this |-> [this EXCEPT !.stock = @ - quantity]]

decreaseStock(this, quantity) ==
    IF quantity > this.stock
    THEN [error |-> "Stock insuficiente", this |-> this]
    ELSE [error |-> NoError, this |-> [this EXCEPT !.stock = @ - quantity]]

increaseStock(this, quantity) ==
    [error |-> NoError, this |-> [this EXCEPT !.stock = @ + quantity]]

InStockLimit(p) == p.stock \in (0 - StockLimit)..StockLimit

NoProductCall == [op |-> "new", quantity |-> 0, before |-> Null]

InitProduct ==
    /\ \E id \in ProductIds, price \in Prices, stock \in 0..MaxStock :
          product = NewProduct(id, ProductName(id), price, stock)
    /\ pCall = NoProductCall
    /\ pError = NoError

\* product.decreaseStock(quantity)
DecreaseStock(quantity) ==
    LET r == decreaseStock(product, quantity) IN
    /\ InStockLimit(r.this)
    /\ product' = r.this
    /\ pError' = r.error
    /\ pCall' = [op |-> "decreaseStock", quantity |-> quantity,
                 before |-> product]
    /\ UNCHANGED <<orderVars, createOrderVars, authVars, moneyVars, sessionVars, createProductVars>>

\* product.increaseStock(quantity)
IncreaseStock(quantity) ==
    LET r == increaseStock(product, quantity) IN
    /\ InStockLimit(r.this)
    /\ product' = r.this
    /\ pError' = r.error
    /\ pCall' = [op |-> "increaseStock", quantity |-> quantity,
                 before |-> product]
    /\ UNCHANGED <<orderVars, createOrderVars, authVars, moneyVars, sessionVars, createProductVars>>

NextProduct ==
    \/ \E quantity \in Quantities : DecreaseStock(quantity)
    \/ \E quantity \in Quantities : IncreaseStock(quantity)

(***************************************************************************)
(* OrderItem and Order                                                     *)
(***************************************************************************)
\* new OrderItem(productId, quantity, price)
NewOrderItem(productId, quantity, price) ==
    [productId |-> productId, quantity |-> quantity, price |-> price]

NewOrderAsProcessing(id, customerId) ==
    [id |-> id, customerId |-> customerId, status |-> "processing",
     items |-> <<>>, totalAmount |-> 0]

\* new Order(id, customerId): status "pending", items [], totalAmount 0
NewOrder(id, customerId) ==
    [id |-> id, customerId |-> customerId, status |-> "pending",
     items |-> <<>>, totalAmount |-> 0]

Statuses == {"pending", "processing", "completed", "cancelled"}

\* items.reduce((total, item) => total + item.quantity * item.price, 0)
RECURSIVE ReduceTotal(_, _)
ReduceTotal(items, total) ==
    IF items = <<>> THEN total
    ELSE ReduceTotal(Tail(items), total + Head(items).quantity * Head(items).price)

\* items.filter((item) => item.productId !== productId)
RECURSIVE FilterOut(_, _)
FilterOut(items, productId) ==
    IF items = <<>> THEN <<>>
    ELSE IF Head(items).productId # productId
         THEN <<Head(items)>> \o FilterOut(Tail(items), productId)
         ELSE FilterOut(Tail(items), productId)

recalculateTotal(this) ==
    [this EXCEPT !.totalAmount = ReduceTotal(this.items, 0)]

addItemMerging(this, item) ==
    LET same == {i \in 1..Len(this.items) :
                    this.items[i].productId = item.productId}
        k == CHOOSE i \in same : \A j \in same : i <= j
    IN [error |-> NoError,
        this |-> recalculateTotal(
                    IF same = {}
                    THEN [this EXCEPT !.items = Append(@, item)]
                    ELSE [this EXCEPT !.items[k].quantity =
                                          @ + item.quantity])]

addItemIncremental(this, item) ==
    [error |-> NoError,
     this |-> [this EXCEPT !.items = Append(@, item),
                           !.totalAmount = @ + item.quantity * item.price]]

addItem(this, item) ==
    [error |-> NoError,
     this |-> recalculateTotal([this EXCEPT !.items = Append(@, item)])]

removeItemFirst(this, productId) ==
    LET same == {i \in 1..Len(this.items) :
                    this.items[i].productId = productId}
        k == CHOOSE i \in same : \A j \in same : i <= j
    IN [error |-> NoError,
        this |-> recalculateTotal(
                    IF same = {}
                    THEN this
                    ELSE [this EXCEPT !.items =
                             SubSeq(@, 1, k - 1) \o SubSeq(@, k + 1, Len(@))])]

removeItem(this, productId) ==
    [error |-> NoError,
     this |-> recalculateTotal(
                 [this EXCEPT !.items = FilterOut(@, productId)])]

processRecalculating(this) ==
    IF this.status # "pending"
    THEN [error |-> "La orden no esta en estado pendiente", this |-> this]
    ELSE [error |-> NoError,
          this |-> recalculateTotal([this EXCEPT !.status = "processing"])]

\* The messages of process and complete are the source's, written without
\* the accent of "esta".
process(this) ==
    IF this.status # "pending"
    THEN [error |-> "La orden no esta en estado pendiente", this |-> this]
    ELSE [error |-> NoError, this |-> [this EXCEPT !.status = "processing"]]

completeUnguarded(this) ==
    [error |-> NoError, this |-> [this EXCEPT !.status = "completed"]]

complete(this) ==
    IF this.status # "processing"
    THEN [error |-> "La orden no esta en estado de procesamiento",
          this |-> this]
    ELSE [error |-> NoError, this |-> [this EXCEPT !.status = "completed"]]

cancelUnguarded(this) ==
    [error |-> NoError, this |-> [this EXCEPT !.status = "cancelled"]]

cancel(this) ==
    IF this.status = "completed"
    THEN [error |-> "No se puede cancelar una orden completada",
          this |-> this]
    ELSE [error |-> NoError, this |-> [this EXCEPT !.status = "cancelled"]]

ItemQuantities == 1..MaxQty
OrderItems ==
    {NewOrderItem(p, q, c) : p \in ProductIds, q \in ItemQuantities, c \in Prices}

RECURSIVE SeqsUpTo(_, _)
SeqsUpTo(S, n) ==
    IF n = 0 THEN {<<>>}
    ELSE LET shorter == SeqsUpTo(S, n - 1) IN
         shorter \cup {Append(s, x) : s \in {t \in shorter : Len(t) = n - 1}, x \in S}

\* An order rebuilt by ApiOrderRepository.findById: id, customerId and status
\* go through the constructor, items and totalAmount are copied from the
\* response as they are.
LoadedOrder(data) ==
    [NewOrder(data.id, data.customerId) EXCEPT
        !.status = data.status,
        !.items = data.items,
        !.totalAmount = data.totalAmount]

\* The order under test is either newly constructed or was loaded from the
\* backend, whose totalAmount is whatever the backend stored.
InitOrder ==
    /\ \/ /\ order = NewOrder("t1", "c1")
          /\ oCall = [op |-> "new", from |-> "pending"]
       \/ /\ \E status \in Statuses, items \in SeqsUpTo(OrderItems, MaxItems) :
             \E totalAmount \in {0, ReduceTotal(items, 0)} :
                order = LoadedOrder([id |-> "t1", customerId |-> "c1",
                                     status |-> status, items |-> items,
                                     totalAmount |-> totalAmount])
          /\ oCall = [op |-> "findById", from |-> order.status]
    /\ oError = NoError

OrderCall(op, r) ==
    /\ order' = r.this
    /\ oError' = r.error
    /\ oCall' = [op |-> op, from |-> order.status]
    /\ UNCHANGED <<productVars, createOrderVars, authVars, moneyVars, sessionVars, createProductVars>>

\* order.addItem(item)
AddItem(item) ==
    /\ Len(order.items) < MaxItems
    /\ OrderCall("addItem", addItem(order, item))

\* order.removeItem(productId)
RemoveItem(productId) == OrderCall("removeItem", removeItem(order, productId))

\* order.process()
Process == OrderCall("process", process(order))

\* order.complete()
Complete == OrderCall("complete", complete(order))

\* order.cancel()
Cancel == OrderCall("cancel", cancel(order))

NextOrder ==
    \/ \E item \in OrderItems : AddItem(item)
    \/ \E productId \in ProductIds : RemoveItem(productId)
    \/ Process
    \/ Complete
    \/ Cancel

(***************************************************************************)
(* Repository calls.  Each use case keeps the list of the repository and   *)
(* service calls it has made: [call, arg, ret], where ret is Pending from  *)
(* the invocation until the promise settles, then the value it resolved to *)
(* (Void for Promise<void>) or Rejection.                                  *)
(***************************************************************************)
Pending == [pending |-> TRUE]
Void == [void |-> TRUE]
Rejection == [rejected |-> TRUE]
NetworkError == "Network Error"

Invoke(calls, call, arg) ==
    Append(calls, [call |-> call, arg |-> arg, ret |-> Pending])

Settle(calls, ret) == [calls EXCEPT ![Len(calls)].ret = ret]

(***************************************************************************)
(* ApiProductRepository / ApiOrderRepository over the backend              *)
(***************************************************************************)
\* The products the backend may hold: each has its catalogue name and price
ProductData ==
    {NewProduct(id, ProductName(id), ProductPrice(id), stock) :
        id \in ProductIds, stock \in 0..MaxStock}

\* ApiProductRepository.findById: a Product built from response.data, or null
ProductFindById(id) ==
    IF store[id] # Null
    THEN NewProduct(store[id].id, store[id].name, store[id].price,
                    store[id].stock)
    ELSE Null

ProductSaveDropped(p) == store

\* ApiProductRepository.save: PUT /products/:id with the product as body;
\* the backend then holds the body under that id
ProductSave(p) ==
    [id \in DOMAIN store \cup {p.id} |-> IF id = p.id THEN p ELSE store[id]]

\* ApiOrderRepository.save: PUT /orders/:id with the order as body
OrderSave(o) == Append(orders, o)

(***************************************************************************)
(* CreateOrderUseCase.execute                                              *)
(***************************************************************************)
Execs == {1, 2}
Sequential == {1}

RequestQuantities == (0 - 1)..MaxQty
Requests ==
    {[productId |-> p, quantity |-> q] : p \in ProductIds, q \in RequestQuantities}

IdleExec ==
    [pc |-> "idle", customerId |-> "c1", items |-> <<>>, i |-> 1,
     product |-> Null, order |-> Null, error |-> NoError, calls |-> <<>>]

NotFoundMessageUnnamed(productId) == "Producto no encontrado"

NotFoundMessage(productId) == "Producto " \o productId \o " no encontrado"

InsufficientStockMessage(name) ==
    "Stock insuficiente para el producto " \o name

\* if (product.stock < item.quantity)
StockCheckOff(p, quantity) == FALSE

StockCheckFails(p, quantity) == p.stock < quantity

\* if (!product)
ProductMissing(p) == p = Null

LineItemLivePrice(p, item) ==
    NewOrderItem(p.id, item.quantity, store[p.id].price)

\* new OrderItem(product.id, item.quantity, product.price)
LineItemSwapped(p, item) == NewOrderItem(p.id, p.price, item.quantity)

LineItem(p, item) == NewOrderItem(p.id, item.quantity, p.price)

ThrowGeneric(x, error) == [x EXCEPT !.pc = "rejected", !.error = "Error"]

\* throw: the promise returned by execute rejects with the error
Throw(x, error) == [x EXCEPT !.pc = "rejected", !.error = error]

NextCallOffByOne(x) ==
    IF x.i < Len(x.items)
    THEN [x EXCEPT !.pc = "findById",
                   !.calls = Invoke(@, "findById", x.items[x.i].productId)]
    ELSE [x EXCEPT !.pc = "orderSave",
                   !.calls = Invoke(@, "orderSave", x.order)]

\* Top of the loop body, or the code after the loop: the next repository call
NextCall(x) ==
    IF x.i <= Len(x.items)
    THEN [x EXCEPT !.pc = "findById",
                   !.calls = Invoke(@, "findById", x.items[x.i].productId)]
    ELSE [x EXCEPT !.pc = "orderSave",
                   !.calls = Invoke(@, "orderSave", x.order)]

\* The loop body from the result of findById up to the call of save
AfterFindById(x, found) ==
    LET item == x.items[x.i]
        y == [x EXCEPT !.product = found, !.calls = Settle(@, found)]
    IN  IF ProductMissing(found) THEN Throw(y, NotFoundMessage(item.productId))
        ELSE IF StockCheckFails(found, item.quantity)
             THEN Throw(y, InsufficientStockMessage(found.name))
        ELSE LET r == decreaseStock(found, item.quantity) IN
             IF r.error # NoError THEN Throw(y, r.error)
             ELSE [y EXCEPT !.product = r.this, !.pc = "save",
                            !.calls = Invoke(@, "save", r.this)]

\* The loop body after save has resolved, and on to the next call
AfterSave(x) ==
    LET item == x.items[x.i]
        r == addItem(x.order, LineItem(x.product, item))
    IN  NextCall([x EXCEPT !.order = r.this, !.i = @ + 1,
                           !.calls = Settle(@, Void)])

InitCreateOrder ==
    /\ store \in {f \in [ProductIds -> ProductData \cup {Null}] :
                    \A p \in ProductIds : f[p] = Null \/ f[p].id = p}
    /\ orders = <<>>
    /\ exec = [e \in Execs |-> IdleExec]

\* The state of execute(customerId, items) at its first await; now is
\* Date.now().toString()
Started(customerId, items, now) ==
    NextCall([IdleExec EXCEPT !.customerId = customerId, !.items = items,
                              !.order = NewOrder(now, customerId)])

\* createOrderUseCase.execute(customerId, items)
Execute(e) ==
    /\ exec[e].pc = "idle"
    /\ \E customerId \in CustomerIds, now \in OrderIds :
          \E items \in SeqsUpTo(Requests, MaxReqs) :
             exec' = [exec EXCEPT ![e] = Started(customerId, items, now)]
    /\ UNCHANGED <<store, orders, productVars, orderVars, authVars, moneyVars, sessionVars, createProductVars>>

\* await this.productRepository.findById(item.productId) resolves
FindByIdReturns(e) ==
    /\ exec[e].pc = "findById"
    /\ exec' = [exec EXCEPT ![e] =
                  AfterFindById(@, ProductFindById(@.items[@.i].productId))]
    /\ UNCHANGED <<store, orders, productVars, orderVars, authVars, moneyVars, sessionVars, createProductVars>>

\* await this.productRepository.save(product) resolves
SaveReturns(e) ==
    /\ exec[e].pc = "save"
    /\ store' = ProductSave(exec[e].product)
    /\ exec' = [exec EXCEPT ![e] = AfterSave(@)]
    /\ UNCHANGED <<orders, productVars, orderVars, authVars, moneyVars, sessionVars, createProductVars>>

\* await this.orderRepository.save(order) resolves; return order
OrderSaveReturns(e) ==
    /\ exec[e].pc = "orderSave"
    /\ orders' = OrderSave(exec[e].order)
    /\ exec' = [exec EXCEPT ![e].pc = "resolved",
                            ![e].calls = Settle(@, Void)]
    /\ UNCHANGED <<store, productVars, orderVars, authVars, moneyVars, sessionVars, createProductVars>>

\* The awaited repository call rejects (the HTTP request fails): the error
\* propagates out of execute
CallRejects(e) ==
    /\ exec[e].pc \in {"findById", "save", "orderSave"}
    /\ exec' = [exec EXCEPT ![e] =
                  Throw([@ EXCEPT !.calls = Settle(@, Rejection)], NetworkError)]
    /\ UNCHANGED <<store, orders, productVars, orderVars, authVars, moneyVars, sessionVars, createProductVars>>

NextCreateOrder ==
    \/ \E e \in Sequential : Execute(e)
    \/ \E e \in Sequential : FindByIdReturns(e)
    \/ \E e \in Sequential : SaveReturns(e)
    \/ \E e \in Sequential : OrderSaveReturns(e)
    \/ \E e \in Sequential : CallRejects(e)

(***************************************************************************)
(* AuthenticateUserUseCase.execute                                         *)
(***************************************************************************)
Emails == {"ana@shop.test", "bob@shop.test", "eve@shop.test"}
Passwords == {"pw1", "pw2"}
Roles == {"customer", "admin"}

\* new User(id, email, name, role)
NewUser(id, email, name, role) ==
    [id |-> id, email |-> email, name |-> name, role |-> role]

\* A row of the backend's user table: the user and the password /login accepts
UserRows ==
    {[user |-> NewUser(email, email, "name", role), password |-> pw] :
        email \in Emails, role \in Roles, pw \in Passwords}

\* ApiUserRepository.findByEmail: the first user of the response, or null
UserFindByEmail(email) ==
    IF users[email] # Null THEN users[email].user ELSE Null

\* The token POST /login issues for an account
TokenFor(email) == "jwt:" \o email

IdleAuth ==
    [pc |-> "idle", email |-> "", password |-> "", token |-> "",
     error |-> NoError, calls |-> <<>>]

UserMissingNever(user) == FALSE

\* if (!user)
UserMissing(user) == user = Null

AfterFindByEmailSwapped(x, user) ==
    LET y == [x EXCEPT !.calls = Settle(@, user)] IN
    IF UserMissing(user)
    THEN [y EXCEPT !.pc = "rejected", !.error = "Usuario no encontrado"]
    ELSE [y EXCEPT !.pc = "authenticate",
                   !.calls = Invoke(@, "authenticate",
                                    <<x.password, x.email>>)]

\* The code of execute after findByEmail has resolved
AfterFindByEmail(x, user) ==
    LET y == [x EXCEPT !.calls = Settle(@, user)] IN
    IF UserMissing(user)
    THEN [y EXCEPT !.pc = "rejected", !.error = "Usuario no encontrado"]
    ELSE [y EXCEPT !.pc = "authenticate",
                   !.calls = Invoke(@, "authenticate",
                                    <<x.email, x.password>>)]

InitAuth ==
    /\ users \in {f \in [Emails -> UserRows \cup {Null}] :
                    \A email \in Emails :
                       f[email] = Null \/ f[email].user.email = email}
    /\ auth = IdleAuth

\* authenticateUserUseCase.execute(email, password)
Authenticate(email, password) ==
    /\ auth.pc = "idle"
    /\ auth' = [IdleAuth EXCEPT !.pc = "findByEmail", !.email = email,
                                !.password = password,
                                !.calls = Invoke(@, "findByEmail", email)]
    /\ UNCHANGED <<users, productVars, orderVars, createOrderVars, moneyVars,
                   sessionVars, createProductVars>>

\* await this.userRepository.findByEmail(email) resolves
FindByEmailReturns ==
    /\ auth.pc = "findByEmail"
    /\ auth' = AfterFindByEmail(auth, UserFindByEmail(auth.email))
    /\ UNCHANGED <<users, productVars, orderVars, createOrderVars, moneyVars,
                   sessionVars, createProductVars>>

\* JwtAuthenticationService.authenticate resolves with response.data.token
AuthenticateReturns ==
    /\ auth.pc = "authenticate"
    /\ users[auth.email] # Null
    /\ users[auth.email].password = auth.password
    /\ auth' = [auth EXCEPT !.pc = "resolved",
                            !.token = TokenFor(auth.email),
                            !.calls = Settle(@, [token |-> TokenFor(auth.email)])]
    /\ UNCHANGED <<users, productVars, orderVars, createOrderVars, moneyVars,
                   sessionVars, createProductVars>>

\* The awaited call rejects: the HTTP request fails, or POST /login refuses
\* the credentials
AuthCallRejects ==
    /\ auth.pc \in {"findByEmail", "authenticate"}
    /\ auth' = [auth EXCEPT !.pc = "rejected", !.error = NetworkError,
                            !.calls = Settle(@, Rejection)]
    /\ UNCHANGED <<users, productVars, orderVars, createOrderVars, moneyVars,
                   sessionVars, createProductVars>>

NextAuth ==
    \/ \E email \in Emails, password \in Passwords :
          Authenticate(email, password)
    \/ FindByEmailReturns
    \/ AuthenticateReturns
    \/ AuthCallRejects

(***************************************************************************)
(* Specifications: one per component, the others at rest.                  *)
(***************************************************************************)
RestProduct ==
    /\ product = NewProduct("p1", ProductName("p1"), ProductPrice("p1"), 0)
    /\ pCall = NoProductCall
    /\ pError = NoError

RestOrder ==
    /\ order = NewOrder("t1", "c1")
    /\ oCall = [op |-> "new", from |-> "pending"]
    /\ oError = NoError

RestCreateOrder ==
    /\ store = [p \in ProductIds |-> Null]
    /\ orders = <<>>
    /\ exec = [e \in Execs |-> IdleExec]

RestAuth ==
    /\ users = [email \in Emails |-> Null]
    /\ auth = IdleAuth

\* A token that is null: tokens are strings, and null is the one that is
\* no token
NoToken == ""

RestMoney ==
    /\ moneyA = Null
    /\ moneyB = Null
    /\ moneyR = Null
    /\ mCall = [op |-> "none"]
    /\ mError = NoError

\* LoginForm before any submit
IdleForm == [pc |-> "idle"]

RestSession ==
    /\ session = [user |-> Null, token |-> NoToken]
    /\ localToken = NoToken
    /\ login = [pc |-> "idle"]
    /\ request = Null
    /\ form = IdleForm

RestCreateProduct == creation = [pc |-> "idle"]

RestOthers == RestMoney /\ RestSession /\ RestCreateProduct

InitProductSpec ==
    InitProduct /\ RestOrder /\ RestCreateOrder /\ RestAuth /\ RestOthers
InitOrderSpec ==
    RestProduct /\ InitOrder /\ RestCreateOrder /\ RestAuth /\ RestOthers
InitCreateOrderSpec ==
    RestProduct /\ RestOrder /\ InitCreateOrder /\ RestAuth /\ RestOthers
InitAuthSpec ==
    RestProduct /\ RestOrder /\ RestCreateOrder /\ InitAuth /\ RestOthers

SpecProduct == InitProductSpec /\ [][NextProduct]_vars
SpecOrder == InitOrderSpec /\ [][NextOrder]_vars
SpecCreateOrder == InitCreateOrderSpec /\ [][NextCreateOrder]_vars
SpecAuth == InitAuthSpec /\ [][NextAuth]_vars

(***************************************************************************)
(* Properties of Product (under SpecProduct)                               *)
(***************************************************************************)
DecreaseCalled == pCall.op = "decreaseStock"

\* C1: for every stock >= 0 and every quantity with 0 <= quantity <= stock,
\* decreaseStock(quantity) succeeds and the resulting stock is
\* stock - quantity, which is not negative.
C1_DecreaseWithinStock ==
    (/\ DecreaseCalled
     /\ pCall.before.stock >= 0
     /\ 0 <= pCall.quantity
     /\ pCall.quantity <= pCall.before.stock)
    => /\ pError = NoError
       /\ product.stock = pCall.before.stock - pCall.quantity
       /\ product.stock >= 0

C1_Witness ==
    /\ DecreaseCalled
    /\ pCall.before.stock = MaxStock
    /\ pCall.quantity = MaxStock
    /\ product.stock = 0
    /\ pError = NoError

\* C2: for every stock and every quantity > stock, decreaseStock(quantity)
\* fails with "Stock insuficiente" and leaves the product (id, name, price,
\* stock) as it was before the call.
C2_DecreaseBeyondStock ==
    (DecreaseCalled /\ pCall.quantity > pCall.before.stock)
    => /\ pError = "Stock insuficiente"
       /\ product.id = pCall.before.id
       /\ product.name = pCall.before.name
       /\ product.price = pCall.before.price
       /\ product.stock = pCall.before.stock

C2_Witness ==
    /\ DecreaseCalled
    /\ pCall.before.stock = 1
    /\ pCall.quantity = 2
    /\ pError = "Stock insuficiente"
    /\ product.stock = 1

\* C10: starting from a stock >= 0, after any sequence of decreaseStock and
\* increaseStock calls with any integer quantities, the stock is >= 0.
C10_StockNeverNegative == product.stock >= 0

(***************************************************************************)
(* Properties of Order (under SpecOrder)                                   *)
(***************************************************************************)
\* The sum over the items of quantity * price, by position
ItemsSum(items) ==
    LET RECURSIVE UpTo(_)
        UpTo(n) == IF n = 0 THEN 0
                   ELSE UpTo(n - 1) + items[n].quantity * items[n].price
    IN  UpTo(Len(items))

TotalConsistent(o) ==
    /\ o.totalAmount = ItemsSum(o.items)
    /\ o.items = <<>> => o.totalAmount = 0

\* C3: after an addItem or a removeItem the order's totalAmount equals the
\* sum of quantity * price over its current items (0 when there are none),
\* in any status and whatever the items and total were before; and once the
\* total equals that sum, every later call keeps it so.
C3_TotalIsSumOfItems ==
    [][(oCall'.op \in {"addItem", "removeItem"} \/ TotalConsistent(order))
          => TotalConsistent(order')]_vars

C3_Witness ==
    /\ oCall.op = "removeItem"
    /\ oCall.from = "completed"
    /\ Len(order.items) = 2
    /\ order.items[1].price # order.items[2].price
    /\ order.totalAmount = ItemsSum(order.items)

StatusEdges ==
    {<<"pending", "process", "processing">>,
     <<"processing", "complete", "completed">>,
     <<"pending", "cancel", "cancelled">>,
     <<"processing", "cancel", "cancelled">>}

\* C4: every step that changes the status of an order is one of the four
\* edges pending -process-> processing, processing -complete-> completed,
\* pending -cancel-> cancelled, processing -cancel-> cancelled; a completed
\* order stays completed and a cancelled order stays cancelled.
C4_StatusEdgesOnly ==
    [][/\ order'.status # order.status
          => <<order.status, oCall'.op, order'.status>> \in StatusEdges
       /\ order.status \in {"completed", "cancelled"}
          => order'.status = order.status]_vars

C4_Witness ==
    /\ oCall = [op |-> "complete", from |-> "processing"]
    /\ order.status = "completed"
    /\ oError = NoError

\* The calls for which no edge leaves the status they are made in
NoEdge(op, status) ==
    \/ op = "process" /\ status \in {"processing", "completed", "cancelled"}
    \/ op = "complete" /\ status \in {"pending", "completed", "cancelled"}
    \/ op = "cancel" /\ status \in {"completed", "cancelled"}

\* C5 as stated: every process, complete or cancel made in a status with no
\* edge for it fails with an error and leaves the status unchanged, cancel
\* in cancelled included.
C5_EveryNoEdgeCallFails ==
    NoEdge(oCall.op, oCall.from)
    => oError # NoError /\ order.status = oCall.from

\* C5: process fails in processing, completed and cancelled; complete fails
\* in pending, completed and cancelled; cancel fails in completed; each
\* failure leaves the status unchanged.  cancel in cancelled raises no error
\* and leaves the status cancelled.
C5_NoEdgeCallsFailButCancelTwice ==
    /\ (NoEdge(oCall.op, oCall.from)
        /\ ~(oCall.op = "cancel" /\ oCall.from = "cancelled"))
       => oError # NoError /\ order.status = oCall.from
    /\ (oCall.op = "cancel" /\ oCall.from = "cancelled")
       => oError = NoError /\ order.status = "cancelled"

C5_Witness ==
    /\ oCall = [op |-> "cancel", from |-> "cancelled"]
    /\ order.status = "cancelled"
    /\ oError = NoError

(***************************************************************************)
(* Properties of CreateOrderUseCase (under SpecCreateOrder)                *)
(***************************************************************************)
IsProduct(ret) == ret \notin {Pending, Rejection, Null, Void}

\* The request the call at position k of an execution's calls belongs to:
\* the n-th findById is made for the n-th request
RequestOf(x, k) ==
    x.items[Cardinality({j \in 1..k : x.calls[j].call = "findById"})]

Called(x, call) == \E k \in 1..Len(x.calls) : x.calls[k].call = call

\* A single request (p, q) whose product exists with stock s and 0 < q <= s
SingleGoodRequest(x) ==
    /\ Len(x.items) = 1
    /\ Len(x.calls) >= 1
    /\ x.calls[1].call = "findById"
    /\ IsProduct(x.calls[1].ret)
    /\ 0 < x.items[1].quantity
    /\ x.items[1].quantity <= x.calls[1].ret.stock

\* C6: for a request list with one entry (p, q) where product p exists with
\* price c and stock s and 0 < q <= s: execute raises no error of its own
\* (it rejects only when a repository call rejects), the product passed to
\* productRepository.save is p with stock s - q, and when execute resolves
\* the order is pending, is the customer's, has exactly the item (p, q, c)
\* and totalAmount q * c, and is the order passed to orderRepository.save.
C6_SingleRequestSucceeds ==
    LET x == exec[1]
        found == x.calls[1].ret
        q == x.items[1].quantity
    IN  SingleGoodRequest(x) =>
        /\ x.pc = "rejected" => x.error = NetworkError
        /\ Len(x.calls) >= 2 =>
              /\ x.calls[2].call = "save"
              /\ x.calls[2].arg = [found EXCEPT !.stock = found.stock - q]
        /\ x.pc = "resolved" =>
              /\ x.order.status = "pending"
              /\ x.order.customerId = x.customerId
              /\ x.order.items = <<[productId |-> x.items[1].productId,
                                    quantity |-> q, price |-> found.price]>>
              /\ x.order.totalAmount = q * found.price
              /\ Len(x.calls) = 3
              /\ x.calls[3] = [call |-> "orderSave", arg |-> x.order,
                               ret |-> Void]
              /\ orders = <<x.order>>
              /\ store[x.items[1].productId].stock = found.stock - q

C6_Witness ==
    LET x == exec[1] IN
    /\ x.pc = "resolved"
    /\ x.items = <<[productId |-> "p1", quantity |-> 2]>>
    /\ x.calls[1].ret.stock = 2
    /\ x.calls[1].ret.price = 10
    /\ x.order.totalAmount = 20
    /\ store["p1"].stock = 0

\* C7: if a request asks for more than the stock findById returned for its
\* product, execute rejects with the insufficient-stock error naming the
\* product, that findById is the last repository call of the execution (the
\* product of the failing request is not saved) and orderRepository.save is
\* never called.
C7_InsufficientStockRejects ==
    LET x == exec[1] IN
    \A k \in 1..Len(x.calls) :
       (/\ x.calls[k].call = "findById"
        /\ IsProduct(x.calls[k].ret)
        /\ RequestOf(x, k).quantity > x.calls[k].ret.stock)
       => /\ x.pc = "rejected"
          /\ x.error = InsufficientStockMessage(x.calls[k].ret.name)
          /\ k = Len(x.calls)
          /\ ~Called(x, "orderSave")
          /\ orders = <<>>

C7_Witness ==
    LET x == exec[1] IN
    /\ x.pc = "rejected"
    /\ Len(x.items) = 2
    /\ Len(x.calls) = 3
    /\ x.calls[2].call = "save"
    /\ IsProduct(x.calls[3].ret)
    /\ x.items[2].quantity > x.calls[3].ret.stock
    /\ x.error = InsufficientStockMessage("Lamp")

\* C8: if findById returns null for a request, execute rejects with the
\* not-found error naming that request's productId, that findById is the
\* last repository call of the execution (no product is saved for that or
\* any later request) and orderRepository.save is never called.
C8_NotFoundRejects ==
    LET x == exec[1] IN
    \A k \in 1..Len(x.calls) :
       (x.calls[k].call = "findById" /\ x.calls[k].ret = Null)
       => /\ x.pc = "rejected"
          /\ x.calls[k].arg = RequestOf(x, k).productId
          /\ x.error = "Producto " \o RequestOf(x, k).productId
                          \o " no encontrado"
          /\ k = Len(x.calls)
          /\ ~Called(x, "orderSave")
          /\ orders = <<>>

C8_Witness ==
    LET x == exec[1] IN
    /\ x.pc = "rejected"
    /\ Len(x.items) = 2
    /\ Len(x.calls) = 3
    /\ x.calls[2].call = "save"
    /\ x.calls[3] = [call |-> "findById", arg |-> "p2", ret |-> Null]
    /\ x.error = "Producto p2 no encontrado"

(***************************************************************************)
(* Properties of AuthenticateUserUseCase (under SpecAuth)                  *)
(***************************************************************************)
\* C9: when userRepository.findByEmail returns null, execute rejects with
\* "Usuario no encontrado" and authService.authenticate is never invoked in
\* that execution.
C9_UnknownEmailRejects ==
    \A k \in 1..Len(auth.calls) :
       (auth.calls[k].call = "findByEmail" /\ auth.calls[k].ret = Null)
       => /\ auth.pc = "rejected"
          /\ auth.error = "Usuario no encontrado"
          /\ ~Called(auth, "authenticate")

C9_Witness ==
    /\ auth.pc = "rejected"
    /\ auth.email = "eve@shop.test"
    /\ auth.calls = <<[call |-> "findByEmail", arg |-> "eve@shop.test",
                       ret |-> Null]>>
    /\ users["ana@shop.test"] # Null

(***************************************************************************)
(* CreateOrderUseCase: partial failure and ordering (under SpecCreateOrder)*)
(***************************************************************************)
SaveCalls(x) == {j \in 1..Len(x.calls) : x.calls[j].call = "save"}

\* The last save of the product that the save at position j stores
LastSaveOf(x, j) ==
    CHOOSE l \in SaveCalls(x) :
       /\ x.calls[l].arg.id = x.calls[j].arg.id
       /\ \A m \in SaveCalls(x) :
             x.calls[m].arg.id = x.calls[j].arg.id => m <= l

\* execute has failed on a request: product not found or insufficient stock
RequestFailed(x) == x.pc = "rejected" /\ x.error # NetworkError

\* C11: when the k-th request fails (not found or insufficient stock), every
\* product saved for requests 1..k-1 was saved with the stock findById
\* returned minus the requested quantity, the backend still holds what was
\* last saved for it, and no order is persisted: there is no rollback.
C11_NoRollback ==
    LET x == exec[1] IN
    RequestFailed(x) =>
       /\ orders = <<>>
       /\ \A j \in SaveCalls(x) :
             /\ x.calls[j].ret = Void
             /\ x.calls[j].arg.stock =
                   x.calls[j - 1].ret.stock - RequestOf(x, j).quantity
             /\ store[x.calls[j].arg.id] = x.calls[LastSaveOf(x, j)].arg

C11_Witness ==
    LET x == exec[1] IN
    /\ RequestFailed(x)
    /\ x.items = <<[productId |-> "p1", quantity |-> 2],
                   [productId |-> "p2", quantity |-> 1]>>
    /\ x.error = "Producto p2 no encontrado"
    /\ x.calls[1].ret.stock = 2
    /\ store["p1"].stock = 0
    /\ orders = <<>>

\* C12: the repository calls of an execution are, in this sequence,
\* findById then save for request 1, findById then save for request 2, ...,
\* and a single orderRepository.save after the save of the last request;
\* each call is made only after the one before it has resolved, and the
\* order of a successful execution lists the requests in their sequence and
\* is the order given to orderRepository.save.
C12_CallsInRequestOrder ==
    LET x == exec[1]
        n == Len(x.items)
    IN  /\ Len(x.calls) <= 2 * n + 1
        /\ \A k \in 1..Len(x.calls) :
              /\ (k <= 2 * n /\ k % 2 = 1) =>
                    /\ x.calls[k].call = "findById"
                    /\ x.calls[k].arg = x.items[(k + 1) \div 2].productId
              /\ (k <= 2 * n /\ k % 2 = 0) =>
                    /\ x.calls[k].call = "save"
                    /\ x.calls[k].arg.id = x.items[k \div 2].productId
                    /\ IsProduct(x.calls[k - 1].ret)
              /\ k = 2 * n + 1 => x.calls[k].call = "orderSave"
              /\ (k > 1 /\ k % 2 = 1) => x.calls[k - 1].ret = Void
        /\ x.pc = "resolved" =>
              /\ Len(x.calls) = 2 * n + 1
              /\ x.calls[2 * n + 1].arg = x.order
              /\ orders = <<x.order>>
              /\ Len(x.order.items) = n
              /\ \A i \in 1..n :
                    /\ x.order.items[i].productId = x.items[i].productId
                    /\ x.order.items[i].quantity = x.items[i].quantity

C12_Witness ==
    LET x == exec[1] IN
    /\ x.pc = "resolved"
    /\ x.items = <<[productId |-> "p2", quantity |-> 1],
                   [productId |-> "p1", quantity |-> 2]>>
    /\ Len(x.calls) = 5
    /\ x.order.items[1].productId = "p2"
    /\ x.order.items[2].productId = "p1"

\* C16: the order execute constructs is pending with no items and total 0;
\* with an empty request list execute makes no productRepository call, its
\* only call is orderRepository.save, and what it persists is exactly one
\* order, pending, with no items and totalAmount 0.
C16_EmptyOrder ==
    LET x == exec[1] IN
    /\ (x.pc # "idle" /\ Len(x.calls) = 1 /\ x.calls[1].ret = Pending)
       => /\ x.order.status = "pending"
          /\ x.order.items = <<>>
          /\ x.order.totalAmount = 0
    /\ (x.pc # "idle" /\ x.items = <<>>)
       => /\ Len(x.calls) = 1
          /\ x.calls[1].call = "orderSave"
          /\ x.pc \in {"orderSave", "resolved", "rejected"}
          /\ x.pc = "resolved" =>
                /\ Len(orders) = 1
                /\ orders[1].status = "pending"
                /\ orders[1].items = <<>>
                /\ orders[1].totalAmount = 0
                /\ orders[1].customerId = x.customerId
          /\ x.pc # "resolved" => orders = <<>>

C16_Witness ==
    LET x == exec[1] IN
    /\ x.pc = "resolved"
    /\ x.items = <<>>
    /\ x.customerId = "c2"
    /\ Len(orders) = 1
    /\ store["p1"] # Null

(***************************************************************************)
(* CreateOrderUseCase while the catalogue changes: another client of the   *)
(* backend edits a product during or after an execution                    *)
(***************************************************************************)
\* PUT /products/:id by another client: a new price, a new stock or both,
\* racing with the use case's own save of p or made after the order exists
BackendEdit(p, price, stock) ==
    /\ \/ exec[1].pc = "save" /\ exec[1].product.id = p
       \/ exec[1].pc = "resolved"
    /\ store[p] # Null
    /\ <<store[p].price, store[p].stock>> # <<price, stock>>
    /\ store' = [store EXCEPT ![p].price = price, ![p].stock = stock]
    /\ UNCHANGED <<orders, exec, productVars, orderVars, authVars, moneyVars,
                   sessionVars, createProductVars>>

NextPriceChange ==
    \/ NextCreateOrder
    \/ \E p \in ProductIds, price \in Prices, stock \in {0, MaxStock} :
          BackendEdit(p, price, stock)

SpecPriceChange == InitCreateOrderSpec /\ [][NextPriceChange]_vars

\* The items of an order other than those of one product, in their sequence
ItemsNotOf(items, productId) ==
    SelectSeq(items, LAMBDA item : item.productId # productId)

\* C17: the price of the i-th line item is the price findById returned when
\* request i was processed, whatever the backend holds for that product
\* afterwards; the order's totalAmount is the sum of quantity * that price,
\* and an addItem or removeItem made later on the order recomputes the
\* total from the prices stored in the items (the added item being one
\* unit of a product at the backend's current price).
C17_PriceSnapshot ==
    LET x == exec[1] IN
    x.pc # "idle" =>
       /\ \A i \in 1..Len(x.order.items) :
             /\ x.order.items[i].price = x.calls[2 * i - 1].ret.price
             /\ x.order.items[i].quantity = x.items[i].quantity
       /\ x.order.totalAmount = ItemsSum(x.order.items)
       /\ \A p \in ProductIds :
             removeItem(x.order, p).this.totalAmount =
                ItemsSum(ItemsNotOf(x.order.items, p))
       /\ \A p \in {q \in ProductIds : store[q] # Null} :
             addItem(x.order, NewOrderItem(p, 1, store[p].price)).this.totalAmount =
                ItemsSum(x.order.items) + store[p].price

C17_Witness ==
    LET x == exec[1] IN
    /\ x.pc = "resolved"
    /\ Len(x.order.items) = 2
    /\ x.order.items[1].productId = "p1"
    /\ x.order.items[2].productId = "p2"
    /\ store["p1"].price # x.order.items[1].price
    /\ store["p2"].price # x.order.items[2].price
    /\ store["p1"].stock # x.calls[2].arg.stock
    /\ x.order.totalAmount = 15

(***************************************************************************)
(* The item list of an Order under its operations                          *)
(***************************************************************************)
\* s is t with some of its elements left out
RECURSIVE IsSubSeq(_, _)
IsSubSeq(s, t) ==
    IF s = <<>> THEN TRUE
    ELSE IF t = <<>> THEN FALSE
    ELSE IF Head(s) = Head(t) THEN IsSubSeq(Tail(s), Tail(t))
    ELSE IsSubSeq(s, Tail(t))

\* C19: a call of addItem makes the item list one longer, the items that
\* were there staying as they were in their places and the new one coming
\* last, also when an item of the same productId is already there;
\* removeItem leaves the items it keeps as they were, in their sequence;
\* process, complete and cancel leave the item list as it was.
C19_ItemsImmutable ==
    [][/\ oCall'.op = "addItem"
          => /\ Len(order'.items) = Len(order.items) + 1
             /\ SubSeq(order'.items, 1, Len(order.items)) = order.items
             /\ order'.items[Len(order'.items)] \in OrderItems
       /\ oCall'.op = "removeItem" => IsSubSeq(order'.items, order.items)
       /\ oCall'.op \in {"process", "complete", "cancel"}
          => order'.items = order.items]_vars

C19_Witness ==
    /\ oCall.op = "addItem"
    /\ Len(order.items) = 3
    /\ order.items[1].productId = "p1"
    /\ order.items[2].productId = "p2"
    /\ order.items[3] = order.items[1]
    /\ oError = NoError

\* C20 as stated: removeItem(productId) never fails, leaves exactly the
\* items of other products in their sequence, and when it removes nothing
\* the order, totalAmount included, is as it was.
C20_RemoveItemKeepsTotal ==
    [][/\ \A p \in ProductIds :
             /\ removeItem(order, p).error = NoError
             /\ removeItem(order, p).this.items = ItemsNotOf(order.items, p)
       /\ oCall'.op = "removeItem"
          => /\ oError' = NoError
             /\ \E p \in ProductIds :
                   order'.items = ItemsNotOf(order.items, p)
             /\ order'.items = order.items
                => order'.totalAmount = order.totalAmount]_vars

\* C20: removeItem(productId) never fails and leaves exactly the items of
\* other products in their sequence; totalAmount is then the sum over the
\* items left, so that a call that removes nothing leaves totalAmount as it
\* was when it was that sum before the call, and otherwise sets it to that
\* sum.
C20_RemoveItemRecomputes ==
    [][/\ \A p \in ProductIds :
             /\ removeItem(order, p).error = NoError
             /\ removeItem(order, p).this.items = ItemsNotOf(order.items, p)
       /\ oCall'.op = "removeItem"
          => /\ oError' = NoError
             /\ \E p \in ProductIds :
                   order'.items = ItemsNotOf(order.items, p)
             /\ order'.totalAmount = ItemsSum(order'.items)
             /\ (order'.items = order.items /\ TotalConsistent(order))
                => order'.totalAmount = order.totalAmount]_vars

\* A loaded order whose stored total was 0 after removeItem of a product it
\* does not hold
C20_Witness ==
    /\ oCall = [op |-> "removeItem", from |-> "processing"]
    /\ Len(order.items) = 2
    /\ order.items[1].productId = "p1"
    /\ order.items[2].productId = "p1"
    /\ order.totalAmount = ItemsSum(order.items)
    /\ order.totalAmount > 0
    /\ oError = NoError

(***************************************************************************)
(* Money (value object)                                                    *)
(***************************************************************************)
Amounts == (0 - 1)..MaxAmount
Currencies == {"", "US", "USD", "EUR", "EURO"}

\* new Money(amount, currency) (private constructor)
NewMoney(amount, currency) == [amount |-> amount, currency |-> currency]

getAmount(this) == this.amount

getCurrency(this) == this.currency

MoneyCreateNoZero(amount, currency) ==
    IF amount <= 0
    THEN [error |-> "El monto no puede ser negativo", value |-> Null]
    ELSE IF Len(currency) # 3
    THEN [error |-> "El codigo de moneda debe tener 3 caracteres",
          value |-> Null]
    ELSE [error |-> NoError, value |-> NewMoney(amount, currency)]

\* Money.create(amount, currency); value is the Money returned
MoneyCreate(amount, currency) ==
    IF amount < 0
    THEN [error |-> "El monto no puede ser negativo", value |-> Null]
    ELSE IF Len(currency) # 3
    THEN [error |-> "El codigo de moneda debe tener 3 caracteres",
          value |-> Null]
    ELSE [error |-> NoError, value |-> NewMoney(amount, currency)]

MoneyAddAnyCurrency(this, other) ==
    MoneyCreate(this.amount + other.amount, this.currency)
       @@ [this |-> this, other |-> other]

\* this.add(other); value is the Money returned, this and other the two
\* operands after the call
MoneyAdd(this, other) ==
    IF this.currency # other.currency
    THEN [error |-> "No se pueden sumar montos de diferentes monedas",
          value |-> Null, this |-> this, other |-> other]
    ELSE MoneyCreate(this.amount + other.amount, this.currency)
            @@ [this |-> this, other |-> other]

InitMoney == RestMoney

MoneyFrame ==
    UNCHANGED <<productVars, orderVars, createOrderVars, authVars,
                sessionVars, createProductVars>>

\* a = Money.create(amount, currency); a keeps its value if create throws
CreateA(amount, currency) ==
    LET r == MoneyCreate(amount, currency) IN
    /\ moneyA' = IF r.error = NoError THEN r.value ELSE moneyA
    /\ moneyR' = r.value
    /\ mError' = r.error
    /\ mCall' = [op |-> "create", amount |-> amount, currency |-> currency]
    /\ UNCHANGED moneyB
    /\ MoneyFrame

\* b = Money.create(amount, currency)
CreateB(amount, currency) ==
    LET r == MoneyCreate(amount, currency) IN
    /\ moneyB' = IF r.error = NoError THEN r.value ELSE moneyB
    /\ moneyR' = r.value
    /\ mError' = r.error
    /\ mCall' = [op |-> "create", amount |-> amount, currency |-> currency]
    /\ UNCHANGED moneyA
    /\ MoneyFrame

\* a.add(b)
AddAB ==
    /\ moneyA # Null
    /\ moneyB # Null
    /\ LET r == MoneyAdd(moneyA, moneyB) IN
       /\ moneyA' = r.this
       /\ moneyB' = r.other
       /\ moneyR' = r.value
       /\ mError' = r.error
       /\ mCall' = [op |-> "add", a |-> moneyA, b |-> moneyB]
    /\ MoneyFrame

NextMoney ==
    \/ \E amount \in Amounts, currency \in Currencies :
          CreateA(amount, currency)
    \/ \E amount \in Amounts, currency \in Currencies :
          CreateB(amount, currency)
    \/ AddAB

InitMoneySpec ==
    RestProduct /\ RestOrder /\ RestCreateOrder /\ RestAuth /\ InitMoney
       /\ RestSession /\ RestCreateProduct

SpecMoney == InitMoneySpec /\ [][NextMoney]_vars

\* C13: Money.create(amount, currency) fails when amount < 0 and fails when
\* currency does not have exactly 3 characters; otherwise it succeeds and
\* returns a Money whose getAmount() is amount and getCurrency() is currency.
C13_MoneyCreate ==
    mCall.op = "create" =>
       IF mCall.amount < 0 \/ mCall.currency \notin {"USD", "EUR"}
       THEN mError # NoError /\ moneyR = Null
       ELSE /\ mError = NoError
            /\ moneyR # Null
            /\ getAmount(moneyR) = mCall.amount
            /\ getCurrency(moneyR) = mCall.currency

C13_Witness ==
    /\ mCall = [op |-> "create", amount |-> 0, currency |-> "EURO"]
    /\ mError = "El codigo de moneda debe tener 3 caracteres"
    /\ moneyA = NewMoney(0, "USD")

\* C14: for two valid Money values a and b, a.add(b) fails when their
\* currencies differ; when they are equal it returns a new Money with amount
\* a.amount + b.amount and the same currency; a and b are unchanged.
C14_MoneyAdd ==
    mCall.op = "add" =>
       /\ moneyA = mCall.a
       /\ moneyB = mCall.b
       /\ IF mCall.a.currency # mCall.b.currency
          THEN mError # NoError /\ moneyR = Null
          ELSE /\ mError = NoError
               /\ moneyR = [amount |-> mCall.a.amount + mCall.b.amount,
                            currency |-> mCall.a.currency]

C14_Witness ==
    /\ mCall = [op |-> "add", a |-> NewMoney(2, "USD"), b |-> NewMoney(1, "USD")]
    /\ moneyR = NewMoney(3, "USD")
    /\ mError = NoError

(***************************************************************************)
(* Session: the auth store, the login mutation of useAuth, and the api     *)
(* client's request interceptor                                            *)
(***************************************************************************)
\* useAuthStore: setUser, setToken, logout
setUser(s, user) == [s EXCEPT !.user = user]

setToken(s, token) == [s EXCEPT !.token = token]

logout(s) == [user |-> Null, token |-> NoToken]

\* What localStorage may hold under "token" when the application starts:
\* nothing, or an entry left there by something else
StoredTokens == {NoToken, "jwt:stale"}

NoHeader == "none"

\* api.interceptors.request: the Authorization header of an outgoing request
Authorization(stored) ==
    IF stored # NoToken THEN "Bearer " \o stored ELSE NoHeader

\* The endpoints the product, order and user repositories call
RepositoryUrls == {"/products", "/orders", "/users"}

InitSession ==
    /\ session = [user |-> Null, token |-> NoToken]
    /\ localToken \in StoredTokens
    /\ login = [pc |-> "idle"]
    /\ request = Null
    /\ form = IdleForm

SessionFrame ==
    UNCHANGED <<productVars, orderVars, createOrderVars, moneyVars,
                createProductVars>>

OnSuccessOnSettled ==
    /\ auth.pc \in {"resolved", "rejected"}
    /\ login.pc = "idle"
    /\ session' = setToken(session, auth.token)
    /\ login' = [pc |-> "validating", token |-> auth.token]
    /\ UNCHANGED <<authVars, localToken, request, form>>
    /\ SessionFrame

\* loginMutation.onSuccess(token) up to its await: setToken(token), then
\* authService.validateToken(token) is called
OnSuccess ==
    /\ auth.pc = "resolved"
    /\ login.pc = "idle"
    /\ session' = setToken(session, auth.token)
    /\ login' = [pc |-> "validating", token |-> auth.token]
    /\ UNCHANGED <<authVars, localToken, request, form>>
    /\ SessionFrame

\* await authService.validateToken(token) resolves with the user of GET /me;
\* setUser(user)
ValidateTokenReturns ==
    /\ login.pc = "validating"
    /\ session' = setUser(session, users[auth.email].user)
    /\ login' = [login EXCEPT !.pc = "done"]
    /\ UNCHANGED <<authVars, localToken, request, form>>
    /\ SessionFrame

\* await authService.validateToken(token) rejects: onSuccess ends there
ValidateTokenRejects ==
    /\ login.pc = "validating"
    /\ login' = [login EXCEPT !.pc = "failed"]
    /\ UNCHANGED <<authVars, session, localToken, request, form>>
    /\ SessionFrame

\* Header: the Logout button, shown while the store has a user
Logout ==
    /\ session.user # Null
    /\ session' = logout(session)
    /\ UNCHANGED <<authVars, localToken, login, request, form>>
    /\ SessionFrame

\* A repository sends a request through the api client; sessionToken is the
\* token the auth store holds at that moment
RepositoryRequest(url) ==
    /\ request' = [url |-> url, authorization |-> Authorization(localToken),
                   sessionToken |-> session.token]
    /\ UNCHANGED <<authVars, session, localToken, login, form>>
    /\ SessionFrame

NextSession ==
    \/ \E email \in Emails, password \in Passwords :
          Authenticate(email, password)
    \/ FindByEmailReturns
    \/ AuthenticateReturns
    \/ AuthCallRejects
    \/ OnSuccess
    \/ ValidateTokenReturns
    \/ ValidateTokenRejects
    \/ Logout
    \/ \E url \in RepositoryUrls : RepositoryRequest(url)

InitSessionSpec ==
    RestProduct /\ RestOrder /\ RestCreateOrder /\ InitAuth /\ RestMoney
       /\ InitSession /\ RestCreateProduct

SpecSession == InitSessionSpec /\ [][NextSession]_vars

\* C15: whenever the session store holds a token after a successful login,
\* every request a repository then sends through the api client carries the
\* header Authorization: Bearer <that token>.
C15_RequestsCarrySessionToken ==
    (request # Null /\ request.sessionToken # NoToken)
    => request.authorization = "Bearer " \o request.sessionToken

(***************************************************************************)
(* CreateProductUseCase.execute                                            *)
(***************************************************************************)
\* Date.now().toString() at the call
Timestamps == {"t1", "t2"}
NewProductNames == {"", "Lamp", "Desk"}
NewProductPrices == {0 - 1, 0} \cup Prices
NewProductStocks == (0 - 1)..MaxStock

CreatedProductSwapped(name, price, stock, now) ==
    NewProduct(now, name, stock, price)

\* new Product(Date.now().toString(), name, price, stock)
CreatedProduct(name, price, stock, now) == NewProduct(now, name, price, stock)

InitCreateProduct == creation = [pc |-> "idle"]

CreateProductFrame ==
    UNCHANGED <<productVars, orderVars, orders, exec, authVars, moneyVars,
                sessionVars>>

\* execute(name, price, stock) up to its await of productRepository.save
CreateProduct(name, price, stock, now) ==
    /\ creation.pc = "idle"
    /\ creation' =
          [pc |-> "save", name |-> name, price |-> price, stock |-> stock,
           product |-> CreatedProduct(name, price, stock, now),
           result |-> Null, error |-> NoError,
           calls |-> Invoke(<<>>, "save",
                            CreatedProduct(name, price, stock, now))]
    /\ UNCHANGED store
    /\ CreateProductFrame

\* save resolves: execute returns the product
CreateProductSaveReturns ==
    /\ creation.pc = "save"
    /\ store' = ProductSave(creation.product)
    /\ creation' = [creation EXCEPT !.pc = "resolved",
                                    !.result = creation.product,
                                    !.calls = Settle(@, Void)]
    /\ CreateProductFrame

\* save rejects: the rejection leaves execute at the await
CreateProductSaveRejects ==
    /\ creation.pc = "save"
    /\ creation' = [creation EXCEPT !.pc = "rejected",
                                    !.error = NetworkError,
                                    !.calls = Settle(@, Rejection)]
    /\ UNCHANGED store
    /\ CreateProductFrame

NextCreateProduct ==
    \/ \E name \in NewProductNames, price \in NewProductPrices,
          stock \in NewProductStocks, now \in Timestamps :
          CreateProduct(name, price, stock, now)
    \/ CreateProductSaveReturns
    \/ CreateProductSaveRejects

InitCreateProductSpec ==
    /\ RestProduct /\ RestOrder /\ RestCreateOrder /\ RestAuth
    /\ RestMoney /\ RestSession /\ InitCreateProduct

SpecCreateProduct == InitCreateProductSpec /\ [][NextCreateProduct]_vars

SameProductTwice(x) ==
    /\ Len(x.items) = 2
    /\ x.items[1].productId = x.items[2].productId
    /\ Len(x.calls) >= 1
    /\ IsProduct(x.calls[1].ret)

C22_RejectionPropagates ==
    LET x == exec[1] IN
    \A k \in 1..Len(x.calls) :
       x.calls[k].ret = Rejection =>
          /\ k = Len(x.calls)
          /\ x.pc = "rejected"
          /\ x.error = NetworkError
          /\ \A j \in 1..(k - 1) : x.calls[j].ret \notin {Rejection, Pending}
          /\ x.calls[k].call \in {"findById", "save"} =>
                /\ ~Called(x, "orderSave")
                /\ orders = <<>>
          /\ x.calls[k].call = "orderSave" =>
                /\ k = 2 * Len(x.items) + 1
                /\ orders = <<>>
                /\ \A j \in SaveCalls(x) :
                      /\ x.calls[j].ret = Void
                      /\ store[x.calls[j].arg.id] = x.calls[LastSaveOf(x, j)].arg

C22_Witness ==
    LET x == exec[1] IN
    /\ x.pc = "rejected"
    /\ x.items = <<[productId |-> "p1", quantity |-> 2]>>
    /\ Len(x.calls) = 3
    /\ x.calls[1].ret.stock = 2
    /\ x.calls[3].call = "orderSave"
    /\ x.calls[3].ret = Rejection
    /\ store["p1"].stock = 0
    /\ orders = <<>>

(***************************************************************************)
(* AuthenticateUserUseCase: the success path (under SpecAuth)              *)
(***************************************************************************)
IsUser(ret) == ret \notin {Pending, Rejection, Null, Void}

InitialStock == MaxStock

InitInterleaved ==
    /\ store = [p \in ProductIds |->
                  NewProduct(p, ProductName(p), ProductPrice(p), InitialStock)]
    /\ orders = <<>>
    /\ exec = [e \in Execs |-> IdleExec]

\* Requests for at least one unit
PositiveRequests == {r \in Requests : r.quantity >= 1}

\* Date.now().toString() of an execution: the two start at different
\* milliseconds
OrderIdOf(e) == IF e = 1 THEN "t1" ELSE "t2"

\* createOrderUseCase.execute(customerId, items), up to its first await
ExecuteInterleaved(e) ==
    /\ exec[e].pc = "idle"
    /\ \E customerId \in CustomerIds :
          \E items \in SeqsUpTo(PositiveRequests, MaxConcurrentReqs) :
             exec' = [exec EXCEPT ![e] =
                        Started(customerId, items, OrderIdOf(e))]
    /\ UNCHANGED <<store, orders, productVars, orderVars, authVars, moneyVars,
                   sessionVars, createProductVars>>

NextInterleaved ==
    \/ \E e \in Execs : ExecuteInterleaved(e)
    \/ \E e \in Execs : FindByIdReturns(e)
    \/ \E e \in Execs : SaveReturns(e)
    \/ \E e \in Execs : OrderSaveReturns(e)
    \/ \E e \in Execs : CallRejects(e)

InitInterleavedSpec ==
    RestProduct /\ RestOrder /\ InitInterleaved /\ RestAuth /\ RestOthers

SpecInterleaved == InitInterleavedSpec /\ [][NextInterleaved]_vars

\* The units of product p in a list of line items
RECURSIVE QuantityOf(_, _)
QuantityOf(items, p) ==
    IF items = <<>> THEN 0
    ELSE (IF Head(items).productId = p THEN Head(items).quantity ELSE 0)
         + QuantityOf(Tail(items), p)

\* The units of product p in a list of orders
RECURSIVE SoldIn(_, _)
SoldIn(os, p) ==
    IF os = <<>> THEN 0
    ELSE QuantityOf(Head(os).items, p) + SoldIn(Tail(os), p)

\* C24: with two executions interleaving at their awaits, the units of a
\* product in the persisted orders never exceed its initial stock, and once
\* both executions have resolved the stored stock is the initial stock
\* minus those units.
C24_NoOverselling ==
    \A p \in ProductIds :
       /\ SoldIn(orders, p) <= InitialStock
       /\ (\A e \in Execs : exec[e].pc = "resolved")
          => store[p].stock = InitialStock - SoldIn(orders, p)

(***************************************************************************)
(* LoginForm: handleSubmit over the login mutation, with the Header's      *)
(* Logout button, for any number of submits                                *)
(***************************************************************************)
\* What login(credentials), which is loginMutation.mutate, gives its caller:
\* mutate starts the mutation and returns nothing; it neither returns the
\* mutation's promise nor throws its error
Mutate == Void

\* handleSubmit after `await login(...)`: navigate("/"), or the catch branch
\* when the awaited value is a rejection
AfterLogin(awaited) ==
    IF awaited = Rejection
    THEN [pc |-> "caught"]
    ELSE [pc |-> "navigated", path |-> "/"]

\* The submit button is disabled while the mutation is loading, which
\* lasts until onSuccess has settled
MutationLoading ==
    \/ auth.pc \in {"findByEmail", "authenticate"}
    \/ auth.pc = "resolved" /\ login.pc \in {"idle", "validating"}

\* handleSubmit(event): login({email, password}) starts the mutation, whose
\* mutationFn calls authenticateUserUseCase.execute; the await of its
\* result ends in the same turn of the event loop
Submit(email, password) ==
    /\ ~MutationLoading
    /\ auth' = [IdleAuth EXCEPT !.pc = "findByEmail", !.email = email,
                                !.password = password,
                                !.calls = Invoke(@, "findByEmail", email)]
    /\ login' = [pc |-> "idle"]
    /\ form' = AfterLogin(Mutate)
    /\ UNCHANGED <<users, session, localToken, request>>
    /\ SessionFrame

NextLogin ==
    \/ \E email \in Emails, password \in Passwords : Submit(email, password)
    \/ FindByEmailReturns
    \/ AuthenticateReturns
    \/ AuthCallRejects
    \/ OnSuccess
    \/ ValidateTokenReturns
    \/ ValidateTokenRejects
    \/ Logout

SpecLogin == InitSessionSpec /\ [][NextLogin]_vars

\* C25: in every state the auth store has a token whenever it has a user.
C25_UserImpliesToken == session.user # Null => session.token # NoToken

\* C29: from the submit of a login until the use case has rejected, and
\* for as long as that rejection stands, the login's success handler has
\* not started (neither setToken nor setUser is called), and the auth store
\* changes only by a click on Logout: a failed login leaves user and token
\* as they were.
C29_FailedLoginKeepsSession ==
    [][auth'.pc \in {"findByEmail", "authenticate", "rejected"}
          => /\ login'.pc = "idle"
             /\ \/ session' = session
                \/ session.user # Null /\ session' = logout(session)]_vars

C29_Witness ==
    /\ auth.pc = "rejected"
    /\ auth.email = "bob@shop.test"
    /\ auth.error = "Usuario no encontrado"
    /\ login.pc = "idle"
    /\ session.user # Null
    /\ session.user.email = "ana@shop.test"
    /\ session.token = "jwt:ana@shop.test"

\* C30: LoginForm has navigated to "/" only when the login has completed
\* successfully, the token being in the store; and when the login has
\* failed, handleSubmit is in its catch branch and has not navigated.
C30_NavigatesAfterLogin ==
    /\ form.pc = "navigated"
       => /\ auth.pc = "resolved"
          /\ login.pc # "idle"
    /\ auth.pc = "rejected" => form.pc = "caught"

(***************************************************************************)
(* CreateOrderUseCase: conservation of stock (under SpecCreateOrder)       *)
(***************************************************************************)
\* The positions of the findById calls made for product p
FindsOf(x, p) ==
    {k \in 1..Len(x.calls) : x.calls[k].call = "findById" /\ x.calls[k].arg = p}

\* The stock of p before the execution: what its first findById returned
StockBefore(x, p) ==
    x.calls[CHOOSE k \in FindsOf(x, p) : \A j \in FindsOf(x, p) : k <= j].ret.stock

\* C26: when an execution has resolved, for every product named in the
\* request list the stock before the execution minus the stock the backend
\* now holds is the sum of the quantities of the product's line items in
\* the persisted order; for a product not named, no findById and no save
\* was made.
C26_StockConservation ==
    LET x == exec[1] IN
    x.pc = "resolved" =>
       /\ orders = <<x.order>>
       /\ \A p \in ProductIds :
             IF \E i \in 1..Len(x.items) : x.items[i].productId = p
             THEN StockBefore(x, p) - store[p].stock
                     = QuantityOf(orders[1].items, p)
             ELSE /\ FindsOf(x, p) = {}
                  /\ \A j \in SaveCalls(x) : x.calls[j].arg.id # p

C26_Witness ==
    LET x == exec[1] IN
    /\ x.pc = "resolved"
    /\ x.items = <<[productId |-> "p1", quantity |-> 1],
                   [productId |-> "p1", quantity |-> 1]>>
    /\ StockBefore(x, "p1") = 2
    /\ store["p1"].stock = 0
    /\ store["p2"] # Null
    /\ store["p2"].stock = 1
    /\ QuantityOf(orders[1].items, "p1") = 2

\* C27: no product's stored stock is greater after (or during) an execution
\* than the stock its first findById returned, whatever the quantities of
\* the request list, and every line item of a persisted order has a
\* quantity of at least 1.
C27_StockNeverIncreases ==
    LET x == exec[1] IN
    /\ \A p \in ProductIds :
          (/\ FindsOf(x, p) # {}
           /\ \A k \in FindsOf(x, p) : x.calls[k].ret # Pending
           /\ \A k \in FindsOf(x, p) : IsProduct(x.calls[k].ret))
          => store[p].stock <= StockBefore(x, p)
    /\ \A k \in 1..Len(orders) :
          \A i \in 1..Len(orders[k].items) : orders[k].items[i].quantity >= 1

(***************************************************************************)
(* Order: what each operation leaves alone (under SpecOrder)               *)
(***************************************************************************)
\* C28: a call of process, complete or cancel, whether it throws or not,
\* leaves items and totalAmount as they were (and id and customerId); a
\* call of addItem or removeItem leaves status, id and customerId as they
\* were and throws nothing, whatever the status of the order.
C28_OrderFrame ==
    [][/\ oCall'.op \in {"process", "complete", "cancel"}
          => /\ order'.items = order.items
             /\ order'.totalAmount = order.totalAmount
             /\ order'.id = order.id
             /\ order'.customerId = order.customerId
       /\ oCall'.op \in {"addItem", "removeItem"}
          => /\ order'.status = order.status
             /\ order'.id = order.id
             /\ order'.customerId = order.customerId
             /\ oError' = NoError]_vars

C28_Witness ==
    /\ oCall = [op |-> "addItem", from |-> "cancelled"]
    /\ order.status = "cancelled"
    /\ Len(order.items) = 1
    /\ order.totalAmount = ItemsSum(order.items)
    /\ oError = NoError

====
